---- MODULE Spec2Model ----
(***************************************************************************)
(* Model of cura::plugins::PluginProxy (include/plugins/pluginproxy.h):    *)
(* the handshake executed by the channel constructor, the call operator,   *)
(* the special member functions, and the transport that answers the RPCs;  *)
(* and of cura::Simplify::simplify (src/utils/Simplify.h): the early       *)
(* returns, the priority queue of vertices and the main loop.              *)
(***************************************************************************)
EXTENDS Integers, Sequences, FiniteSets, TLC

\* ---------------------------------------------------------------- bounds
MaxArg == 2             \* native call arguments are 1..MaxArg
MaxTime == 1000         \* the clock stops advancing here (ms)
TickMs == 500           \* granularity of the clock (ms)
ShortTimeout == 250     \* the per-call timeout the caller on thread t2 wishes for (ms)
MaxOps == 3             \* operations on proxy objects begun in one run
MaxLen == 5             \* a polygonal chain given to simplify has 0..MaxLen vertices

\* ------------------------------------------------------ program constants
DefaultTimeout == 500   \* prep_client_context's default timeout (ms)

Threads == {"t1", "t2"}      \* calling threads
ProxyIds == {"p1", "p2"}     \* storage that may hold a PluginProxy object
Args == 1..MaxArg
Channels == {"chA", "chB"}

\* The timeout the caller on each thread would like its calls to run with.
RequestedTimeout(t) == IF t = "t1" THEN DefaultTimeout ELSE ShortTimeout

\* std::optional
None == <<>>
Some(x) == <<x>>
HasValue(o) == o # <<>>
Value(o) == o[1]

\* ------------------------------------------------------- the environment
\* The plugin process that listens behind each channel.
PluginAt(c) ==
    IF c = "chA" THEN [plugin_name |-> "MyInfill", plugin_version |-> "1.2.0"]
                 ELSE [plugin_name |-> "OtherInfill", plugin_version |-> "2.0.0"]

\* What grpc::ClientContext::peer() reports for a channel.
PeerOf(c) == IF c = "chA" THEN "ipv4:127.0.0.1:5001" ELSE "ipv4:127.0.0.1:5002"

\* A default-constructed (never filled in) protobuf message.
EmptyHandshakeResponse == [plugin_name |-> "", plugin_version |-> ""]
EmptyResponse == [value |-> 0]

\* The slot this instantiation of the template is bound to.
SlotInfo == [slot_id |-> "INFILL_GENERATE", version_range |-> "^1.0", engine_uuid |-> "abc-123"]

\* handshake_request converter: slot_metadata -> wire request
handshake_request(slot_info) ==
    [slot_id |-> slot_info.slot_id, version_range |-> slot_info.version_range,
     engine_uuid |-> slot_info.engine_uuid]

\* handshake_response converter: (wire response, peer) -> plugin_metadata
handshake_response(response, peer) ==
    [plugin_name |-> response.plugin_name, plugin_version |-> response.plugin_version,
     peer |-> peer]

\* Versions inside a version range.
VersionsIn(range) == IF range = "^1.0" THEN {"1.0.0", "1.2.0"} ELSE {}

\* validator_type{ slot_info, plugin_info } converted to bool
validator_type(slot_info, plugin_info) == plugin_info.plugin_version \in VersionsIn(slot_info.version_range)

\* validator_type{} converted to bool
DefaultValid == FALSE

\* req_ : native arguments -> wire request ; rsp_ : wire response -> native value
req_(x) == [value |-> 10 * x]
rsp_(response) == response.value \div 10

\* value_type{}
DefaultValue == 0

\* The deterministic plugin: the reply to a data request.
PluginReply(request) == [value |-> 2 * request.value]

\* grpc::Status::error_message()
ErrorMessage(code) ==
    IF code = "OK" THEN ""
    ELSE IF code = "UNAVAILABLE" THEN "failed to connect to all addresses"
    ELSE "Deadline Exceeded"

ok(status) == status = "OK"

\* ----------------------------------------------------------------- state
VARIABLES
    now,        \* std::chrono::system_clock::now()
    crashed,    \* the process was terminated by undefined behaviour
    proxy,      \* ProxyIds -> the PluginProxy object in that slot
    pc,         \* Threads -> position of the thread
    frame,      \* Threads -> locals of the constructor / operator() it runs
    rpc,        \* Threads -> the RPC in flight for that thread, if any
    result,     \* Threads -> what the last operation gave its caller
    hist,       \* ProxyIds -> history of the object (handshake states, RPC and validator counts)
    ops,        \* number of operations begun so far
    simplify    \* the frame of one run of Simplify::simplify

vars == <<now, crashed, proxy, pc, frame, rpc, result, hist, ops, simplify>>

NoObject ==
    [life |-> "absent", valid_ |-> DefaultValid, stub_ |-> "disengaged",
     plugin_info_ |-> None, slot_info_ |-> SlotInfo]

NoFrame ==
    [op |-> "none", this |-> "none", channel |-> "none", args |-> 0,
     client_context |-> None, created |-> 0, request |-> None, response |-> None,
     peer |-> "", status |-> "OK", ret_value |-> DefaultValue, decoded |-> FALSE,
     validated |-> FALSE, rpcs_sent |-> 0]

\* The locals an operation leaves behind for inspection once it has returned.
Returned(f, status, response, peer, ret_value) ==
    [NoFrame EXCEPT !.op = f.op, !.args = f.args, !.rpcs_sent = f.rpcs_sent,
                    !.status = status, !.response = Some(response), !.peer = peer,
                    !.ret_value = ret_value]

NoResult == [kind |-> "none", slot |-> None, plugin |-> None, valid |-> None, msg |-> "", value |-> None]

NoHist == [handshake |-> <<>>, hs_rpcs |-> 0, validations |-> 0]

\* No run of Simplify::simplify.
NoSimplify ==
    [pc |-> "idle", polygon |-> <<>>, is_closed |-> FALSE, max_deviation |-> 0,
     to_delete |-> <<>>, by_importance |-> {}, result |-> <<>>, ret |-> <<>>,
     handed |-> {}, reinserted |-> 0, iterations |-> 0]

Init ==
    /\ now = 0
    /\ crashed = FALSE
    /\ proxy = [p \in ProxyIds |-> NoObject]
    /\ pc = [t \in Threads |-> "idle"]
    /\ frame = [t \in Threads |-> NoFrame]
    /\ rpc = [t \in Threads |-> None]
    /\ result = [t \in Threads |-> NoResult]
    /\ hist = [p \in ProxyIds |-> NoHist]
    /\ ops = 0
    /\ simplify = NoSimplify

\* The state the handshake of object p (or of the object it stems from) is in.
HandshakeState(p) ==
    IF hist[p].handshake = <<>> THEN "None" ELSE hist[p].handshake[Len(hist[p].handshake)]

\* Some thread is inside the constructor or operator() of object p.
Busy(p) == \E t \in Threads : pc[t] # "idle" /\ frame[t].this = p

\* ------------------------------------------------------ pure code pieces
\* prep_client_context without set_deadline: the RPC never expires.
prep_client_context_NoDeadline(slot_info, thread, timeout) ==
    [deadline |-> MaxTime + (2 * TickMs) + timeout,
     metadata |-> <<[key |-> "cura-engine-uuid", value |-> slot_info.engine_uuid],
                    [key |-> "cura-thread-id", value |-> thread]>>,
     peer |-> ""]

\* prep_client_context that takes the timeout itself as the deadline.
prep_client_context_NoNow(slot_info, thread, timeout) ==
    [deadline |-> timeout,
     metadata |-> <<[key |-> "cura-engine-uuid", value |-> slot_info.engine_uuid],
                    [key |-> "cura-thread-id", value |-> thread]>>,
     peer |-> ""]

\* prep_client_context that does not add the thread id.
prep_client_context_OneTag(slot_info, thread, timeout) ==
    [deadline |-> now + timeout,
     metadata |-> <<[key |-> "cura-engine-uuid", value |-> slot_info.engine_uuid]>>,
     peer |-> ""]

\* prep_client_context: the deadline and the two metadata entries.
prep_client_context(slot_info, thread, timeout) ==
    [deadline |-> now + timeout,
     metadata |-> <<[key |-> "cura-engine-uuid", value |-> slot_info.engine_uuid],
                    [key |-> "cura-thread-id", value |-> thread]>>,
     peer |-> ""]

\* Member initialisers of PluginProxy(channel): stub_(channel), the rest default.
MemberInit(channel) ==
    [life |-> "constructing", valid_ |-> DefaultValid, stub_ |-> channel,
     plugin_info_ |-> None, slot_info_ |-> SlotInfo]

\* A handshake coroutine that takes the peer from the payload instead of the context.
HandshakeResumed_PeerFromPayload(px, response, peer) ==
    LET info == handshake_response(response, response.plugin_name)
    IN [px EXCEPT !.plugin_info_ = Some(info),
                  !.valid_ = validator_type(px.slot_info_, info)]

\* A handshake coroutine that validates the decoded info but does not keep it.
HandshakeResumed_NoStore(px, response, peer) ==
    LET info == handshake_response(response, peer)
    IN [px EXCEPT !.valid_ = validator_type(px.slot_info_, info)]

\* The handshake coroutine after co_await: decode, validate.
HandshakeResumed(px, response, peer) ==
    LET info == handshake_response(response, peer)
    IN [px EXCEPT !.plugin_info_ = Some(info),
                  !.valid_ = validator_type(px.slot_info_, info)]

\* A RemoteException that is always thrown without the plugin info.
RemoteException_NoPlugin(px, status) ==
    [kind |-> "RemoteException", slot |-> Some(px.slot_info_), plugin |-> None,
     valid |-> None, msg |-> ErrorMessage(status), value |-> None]

RemoteException(px, status) ==
    [kind |-> "RemoteException", slot |-> Some(px.slot_info_),
     plugin |-> IF HasValue(px.plugin_info_) THEN px.plugin_info_ ELSE None,
     valid |-> None, msg |-> ErrorMessage(status), value |-> None]

\* A ValidatorException that is always thrown without the plugin info.
ValidatorException_NoPlugin(px) ==
    [kind |-> "ValidatorException", slot |-> Some(px.slot_info_), plugin |-> None,
     valid |-> Some(px.valid_), msg |-> "", value |-> None]

ValidatorException(px) ==
    [kind |-> "ValidatorException", slot |-> Some(px.slot_info_),
     plugin |-> IF HasValue(px.plugin_info_) THEN px.plugin_info_ ELSE None,
     valid |-> Some(px.valid_), msg |-> "", value |-> None]

\* A constructor that forgets to look at valid_.
ConstructorOutcome_NoValidCheck(px, status) ==
    IF ~ok(status) THEN RemoteException(px, status)
    ELSE [kind |-> "Proxy", slot |-> None, plugin |-> None, valid |-> None, msg |-> "", value |-> None]

\* A constructor that looks at valid_ before the status.
ConstructorOutcome_ValidFirst(px, status) ==
    IF px.valid_
    THEN [kind |-> "Proxy", slot |-> None, plugin |-> None, valid |-> None, msg |-> "", value |-> None]
    ELSE IF ~ok(status) THEN RemoteException(px, status)
    ELSE ValidatorException(px)

\* A constructor that tests valid_ before the status.
ConstructorOutcome_ValidatorFirst(px, status) ==
    IF ~px.valid_ THEN ValidatorException(px)
    ELSE IF ~ok(status) THEN RemoteException(px, status)
    ELSE [kind |-> "Proxy", slot |-> None, plugin |-> None, valid |-> None, msg |-> "", value |-> None]

\* The constructor after grpc_context.run(): throw or complete.
ConstructorOutcome(px, status) ==
    IF ~ok(status) THEN RemoteException(px, status)
    ELSE IF ~px.valid_ THEN ValidatorException(px)
    ELSE [kind |-> "Proxy", slot |-> None, plugin |-> None, valid |-> None, msg |-> "", value |-> None]

\* An operator() that returns the value-initialised ret_value.
CallOutcome_DefaultValue(px, status, ret_value) ==
    IF ~ok(status) THEN RemoteException(px, status)
    ELSE [kind |-> "Value", slot |-> None, plugin |-> None, valid |-> None, msg |-> "",
          value |-> Some(DefaultValue)]

\* An operator() that forgets to look at the status.
CallOutcome_IgnoresStatus(px, status, ret_value) ==
    [kind |-> "Value", slot |-> None, plugin |-> None, valid |-> None, msg |-> "",
     value |-> Some(ret_value)]

\* operator() after grpc_context.run(): throw or return ret_value.
CallOutcome(px, status, ret_value) ==
    IF ~ok(status) THEN RemoteException(px, status)
    ELSE [kind |-> "Value", slot |-> None, plugin |-> None, valid |-> None, msg |-> "",
          value |-> Some(ret_value)]

\* ------------------------------------------------------------- transport
\* What the transport can hand back for an RPC, as <<status, response, peer>>.
Reply(r) ==
    IF r.service = "handshake" THEN PluginAt(r.channel) ELSE PluginReply(r.request)

Empty(r) == IF r.service = "handshake" THEN EmptyHandshakeResponse ELSE EmptyResponse

\* The plugin answered, or the transport failed before the deadline.
Answers(r) ==
    {<<"OK", Reply(r), PeerOf(r.channel)>>,
     <<"UNAVAILABLE", Reply(r), PeerOf(r.channel)>>,
     <<"UNAVAILABLE", Empty(r), "">>}

\* Nobody answered and the deadline elapsed.
Expired(r) == <<"DEADLINE_EXCEEDED", Empty(r), "">>

\* --------------------------------------------------------------- actions
Tick ==
    /\ ~crashed
    /\ now < MaxTime
    /\ now' = now + TickMs
    /\ UNCHANGED <<crashed, proxy, pc, frame, rpc, result, hist, ops, simplify>>

\* PluginProxy(channel): member initialisers, locals, and the coroutine up to
\* co_await RPC::request on the handshake stub.
Construct(t, p, c) ==
    /\ ~crashed
    /\ pc[t] = "idle"
    /\ proxy[p].life = "absent"
    /\ now + DefaultTimeout <= MaxTime
    /\ ops < MaxOps
    /\ ops' = ops + 1
    /\ LET px == MemberInit(c)
           ctx == prep_client_context(px.slot_info_, t, DefaultTimeout)
           request == handshake_request(px.slot_info_)
       IN /\ proxy' = [proxy EXCEPT ![p] = px]
          /\ frame' = [frame EXCEPT ![t] = [NoFrame EXCEPT !.op = "handshake", !.this = p,
                                               !.channel = c, !.client_context = Some(ctx),
                                               !.created = now, !.request = Some(request),
                                               !.rpcs_sent = 1]]
          /\ rpc' = [rpc EXCEPT ![t] = Some([service |-> "handshake", channel |-> c,
                                             request |-> request, deadline |-> ctx.deadline,
                                             metadata |-> ctx.metadata])]
    /\ hist' = [hist EXCEPT ![p] = [NoHist EXCEPT !.handshake = <<"Unstarted", "AwaitingResponse">>,
                                                   !.hs_rpcs = 1]]
    /\ pc' = [pc EXCEPT ![t] = "hs_await"]
    /\ result' = [result EXCEPT ![t] = NoResult]
    /\ UNCHANGED <<now, crashed, simplify>>

\* A constructor that sends the handshake again when the RPC failed.
HandshakeComplete_Retries(t, answer) ==
    LET p == frame[t].this
        status == answer[1]
        response == answer[2]
        peer == answer[3]
        px == HandshakeResumed(proxy[p], response, peer)
        outcome == ConstructorOutcome(px, status)
    IN IF ~ok(status) /\ frame[t].rpcs_sent < 2
       THEN /\ frame' = [frame EXCEPT ![t].rpcs_sent = frame[t].rpcs_sent + 1]
            /\ hist' = [hist EXCEPT ![p].hs_rpcs = hist[p].hs_rpcs + 1]
            /\ UNCHANGED <<now, crashed, proxy, pc, rpc, result, ops, simplify>>
       ELSE /\ frame' = [frame EXCEPT ![t] = [Returned(frame[t], status, response, peer, DefaultValue)
                                                 EXCEPT !.decoded = HasValue(px.plugin_info_),
                                                        !.validated = TRUE]]
            /\ rpc' = [rpc EXCEPT ![t] = None]
            /\ result' = [result EXCEPT ![t] = outcome]
            /\ proxy' = [proxy EXCEPT ![p] = IF outcome.kind = "Proxy"
                                              THEN [px EXCEPT !.life = "alive"]
                                              ELSE NoObject]
            /\ hist' = [hist EXCEPT ![p].validations = hist[p].validations + 1,
                                    ![p].handshake = Append(@, IF outcome.kind = "Proxy"
                                                                  THEN "Accepted" ELSE "Rejected")]
            /\ pc' = [pc EXCEPT ![t] = "idle"]
            /\ UNCHANGED <<now, crashed, ops, simplify>>

\* The rest of the constructor once the handshake RPC completed with `answer`.
HandshakeComplete(t, answer) ==
    LET p == frame[t].this
        status == answer[1]
        response == answer[2]
        peer == answer[3]
        px == HandshakeResumed(proxy[p], response, peer)
        outcome == ConstructorOutcome(px, status)
    IN /\ frame' = [frame EXCEPT ![t] = [Returned(frame[t], status, response, peer, DefaultValue)
                                            EXCEPT !.decoded = HasValue(px.plugin_info_),
                                                   !.validated = TRUE]]
       /\ rpc' = [rpc EXCEPT ![t] = None]
       /\ result' = [result EXCEPT ![t] = outcome]
       /\ proxy' = [proxy EXCEPT ![p] = IF outcome.kind = "Proxy"
                                         THEN [px EXCEPT !.life = "alive"]
                                         ELSE NoObject]
       /\ hist' = [hist EXCEPT ![p].validations = hist[p].validations + 1,
                               ![p].handshake = Append(@, IF outcome.kind = "Proxy"
                                                             THEN "Accepted" ELSE "Rejected")]
       /\ pc' = [pc EXCEPT ![t] = "idle"]
       /\ UNCHANGED <<now, crashed, ops, simplify>>

HandshakeAnswered(t) ==
    /\ ~crashed
    /\ pc[t] = "hs_await"
    /\ now < Value(rpc[t]).deadline
    /\ \E answer \in Answers(Value(rpc[t])) : HandshakeComplete(t, answer)

HandshakeDeadline(t) ==
    /\ ~crashed
    /\ pc[t] = "hs_await"
    /\ now >= Value(rpc[t]).deadline
    /\ HandshakeComplete(t, Expired(Value(rpc[t])))

\* operator()(args...): up to co_await RPC::request on stub_, sent over channel c.
CallSend(t, p, x, c) ==
    LET ctx == prep_client_context(proxy[p].slot_info_, t, DefaultTimeout)
        request == req_(x)
    IN /\ frame' = [frame EXCEPT ![t] = [NoFrame EXCEPT !.op = "call", !.this = p, !.channel = c,
                                            !.args = x,
                                            !.client_context = Some(ctx), !.created = now,
                                            !.request = Some(request), !.rpcs_sent = 1]]
       /\ rpc' = [rpc EXCEPT ![t] = Some([service |-> "data", channel |-> c,
                                          request |-> request, deadline |-> ctx.deadline,
                                          metadata |-> ctx.metadata])]
       /\ pc' = [pc EXCEPT ![t] = "call_await"]
       /\ result' = [result EXCEPT ![t] = NoResult]
       /\ UNCHANGED <<now, proxy, hist, simplify>>

\* operator() on an object whose stub_ holds a stub.
Call(t, p, x) ==
    /\ ~crashed
    /\ pc[t] = "idle"
    /\ proxy[p].life = "alive"
    /\ proxy[p].stub_ \in Channels
    /\ now + DefaultTimeout <= MaxTime
    /\ ops < MaxOps
    /\ ops' = ops + 1
    /\ crashed' = crashed
    /\ CallSend(t, p, x, proxy[p].stub_)

\* operator() on an object whose stub_ is disengaged or moved-from: the read of
\* the stub is undefined behaviour; the request goes out over whatever the
\* storage denotes, or the process dies.
CallNoStub(t, p, x) ==
    /\ ~crashed
    /\ pc[t] = "idle"
    /\ proxy[p].life = "alive"
    /\ proxy[p].stub_ \notin Channels
    /\ now + DefaultTimeout <= MaxTime
    /\ ops < MaxOps
    /\ ops' = ops + 1
    /\ \/ /\ crashed' = crashed
          /\ \E c \in Channels : CallSend(t, p, x, c)
       \/ /\ crashed' = TRUE
          /\ UNCHANGED <<now, proxy, pc, frame, rpc, result, hist, simplify>>

\* An operator() that validates the plugin again when the RPC completed.
CallComplete_Revalidates(t, answer) ==
    LET p == frame[t].this
        status == answer[1]
        response == answer[2]
        ret_value == rsp_(response)
    IN /\ frame' = [frame EXCEPT ![t] = Returned(frame[t], status, response, answer[3], ret_value)]
       /\ rpc' = [rpc EXCEPT ![t] = None]
       /\ result' = [result EXCEPT ![t] = CallOutcome(proxy[p], status, ret_value)]
       /\ pc' = [pc EXCEPT ![t] = "idle"]
       /\ proxy' = [proxy EXCEPT ![p].valid_ =
                       IF HasValue(proxy[p].plugin_info_)
                       THEN validator_type(proxy[p].slot_info_, Value(proxy[p].plugin_info_))
                       ELSE @]
       /\ hist' = [hist EXCEPT ![p].validations = hist[p].validations + 1]
       /\ UNCHANGED <<now, crashed, ops, simplify>>

\* An operator() that sends the request again when the RPC failed.
CallComplete_Retries(t, answer) ==
    LET p == frame[t].this
        status == answer[1]
        response == answer[2]
        ret_value == rsp_(response)
    IN IF ~ok(status) /\ frame[t].rpcs_sent < 2
       THEN /\ frame' = [frame EXCEPT ![t].rpcs_sent = frame[t].rpcs_sent + 1]
            /\ UNCHANGED <<now, crashed, proxy, pc, rpc, result, hist, ops, simplify>>
       ELSE /\ frame' = [frame EXCEPT ![t] = Returned(frame[t], status, response, answer[3], ret_value)]
            /\ rpc' = [rpc EXCEPT ![t] = None]
            /\ result' = [result EXCEPT ![t] = CallOutcome(proxy[p], status, ret_value)]
            /\ pc' = [pc EXCEPT ![t] = "idle"]
            /\ UNCHANGED <<now, crashed, proxy, hist, ops, simplify>>

\* An operator() that forgets the plugin info when the RPC failed.
CallComplete_ForgetsPlugin(t, answer) ==
    LET p == frame[t].this
        status == answer[1]
        response == answer[2]
        ret_value == rsp_(response)
    IN /\ frame' = [frame EXCEPT ![t] = Returned(frame[t], status, response, answer[3], ret_value)]
       /\ rpc' = [rpc EXCEPT ![t] = None]
       /\ result' = [result EXCEPT ![t] = CallOutcome(proxy[p], status, ret_value)]
       /\ pc' = [pc EXCEPT ![t] = "idle"]
       /\ proxy' = [proxy EXCEPT ![p].plugin_info_ = IF ok(status) THEN @ ELSE None]
       /\ UNCHANGED <<now, crashed, hist, ops, simplify>>

\* An operator() whose status and ret_value are shared by all callers of the object.
CallComplete_SharedSlot(t, answer) ==
    LET p == frame[t].this
        status == answer[1]
        response == answer[2]
        ret_value == rsp_(response)
        outcome == CallOutcome(proxy[p], status, ret_value)
    IN /\ frame' = [frame EXCEPT ![t] = Returned(frame[t], status, response, answer[3], ret_value)]
       /\ rpc' = [rpc EXCEPT ![t] = None]
       /\ result' = [u \in Threads |->
                        IF u = t \/ (pc[u] = "call_await" /\ frame[u].this = p)
                        THEN outcome ELSE result[u]]
       /\ pc' = [pc EXCEPT ![t] = "idle"]
       /\ UNCHANGED <<now, crashed, proxy, hist, ops, simplify>>

\* The rest of operator() once the RPC completed with `answer`.
CallComplete(t, answer) ==
    LET p == frame[t].this
        status == answer[1]
        response == answer[2]
        ret_value == rsp_(response)
    IN /\ frame' = [frame EXCEPT ![t] = Returned(frame[t], status, response, answer[3], ret_value)]
       /\ rpc' = [rpc EXCEPT ![t] = None]
       /\ result' = [result EXCEPT ![t] = CallOutcome(proxy[p], status, ret_value)]
       /\ pc' = [pc EXCEPT ![t] = "idle"]
       /\ UNCHANGED <<now, crashed, proxy, hist, ops, simplify>>

CallAnswered(t) ==
    /\ ~crashed
    /\ pc[t] = "call_await"
    /\ now < Value(rpc[t]).deadline
    /\ \E answer \in Answers(Value(rpc[t])) : CallComplete(t, answer)

CallDeadline(t) ==
    /\ ~crashed
    /\ pc[t] = "call_await"
    /\ now >= Value(rpc[t]).deadline
    /\ CallComplete(t, Expired(Value(rpc[t])))

\* PluginProxy() = default
DefaultConstruct(p) ==
    /\ ~crashed
    /\ proxy[p].life = "absent"
    /\ proxy' = [proxy EXCEPT ![p] = [NoObject EXCEPT !.life = "alive"]]
    /\ hist' = [hist EXCEPT ![p] = NoHist]
    /\ ops < MaxOps
    /\ ops' = ops + 1
    /\ UNCHANGED <<now, crashed, pc, frame, rpc, result, simplify>>

\* A copy constructor that takes the plugin info out of its source.
CopyConstruct_StealsInfo(p, q) ==
    /\ ~crashed
    /\ proxy[p].life = "absent"
    /\ proxy[q].life = "alive"
    /\ proxy' = [proxy EXCEPT ![p] = proxy[q], ![q].plugin_info_ = None]
    /\ hist' = [hist EXCEPT ![p] = [NoHist EXCEPT !.handshake = hist[q].handshake]]
    /\ ops < MaxOps
    /\ ops' = ops + 1
    /\ UNCHANGED <<now, crashed, pc, frame, rpc, result, simplify>>

\* PluginProxy(const PluginProxy&) = default
CopyConstruct(p, q) ==
    /\ ~crashed
    /\ proxy[p].life = "absent"
    /\ proxy[q].life = "alive"
    /\ proxy' = [proxy EXCEPT ![p] = proxy[q]]
    /\ hist' = [hist EXCEPT ![p] = [NoHist EXCEPT !.handshake = hist[q].handshake]]
    /\ ops < MaxOps
    /\ ops' = ops + 1
    /\ UNCHANGED <<now, crashed, pc, frame, rpc, result, simplify>>

\* What a move leaves in the source: the stub's channel pointer is null, the
\* strings of the plugin info are valid but unspecified (kept or emptied).
MovedFrom(px) ==
    {[px EXCEPT !.stub_ = "moved_from", !.plugin_info_ = info] :
        info \in IF HasValue(px.plugin_info_)
                 THEN {px.plugin_info_, Some(handshake_response(EmptyHandshakeResponse, ""))}
                 ELSE {None}}

\* PluginProxy(PluginProxy&&) noexcept = default
MoveConstruct(p, q) ==
    /\ ~crashed
    /\ proxy[p].life = "absent"
    /\ proxy[q].life = "alive"
    /\ ~Busy(q)
    /\ \E src \in MovedFrom(proxy[q]) : proxy' = [proxy EXCEPT ![p] = proxy[q], ![q] = src]
    /\ hist' = [hist EXCEPT ![p] = [NoHist EXCEPT !.handshake = hist[q].handshake]]
    /\ ops < MaxOps
    /\ ops' = ops + 1
    /\ UNCHANGED <<now, crashed, pc, frame, rpc, result, simplify>>

\* A copy assignment that does not assign stub_.
CopyAssign_NoStub(p, q) ==
    /\ ~crashed
    /\ proxy[p].life = "alive"
    /\ proxy[q].life = "alive"
    /\ ~Busy(p)
    /\ proxy' = [proxy EXCEPT ![p] = IF p # q
                                      THEN [@ EXCEPT !.valid_ = proxy[q].valid_,
                                                     !.plugin_info_ = proxy[q].plugin_info_,
                                                     !.slot_info_ = proxy[q].slot_info_]
                                      ELSE @]
    /\ hist' = [hist EXCEPT ![p].handshake = hist[q].handshake]
    /\ ops < MaxOps
    /\ ops' = ops + 1
    /\ UNCHANGED <<now, crashed, pc, frame, rpc, result, simplify>>

\* operator=(const PluginProxy& other)
CopyAssign(p, q) ==
    /\ ~crashed
    /\ proxy[p].life = "alive"
    /\ proxy[q].life = "alive"
    /\ ~Busy(p)
    /\ proxy' = [proxy EXCEPT ![p] = IF p # q
                                      THEN [@ EXCEPT !.valid_ = proxy[q].valid_,
                                                     !.stub_ = proxy[q].stub_,
                                                     !.plugin_info_ = proxy[q].plugin_info_,
                                                     !.slot_info_ = proxy[q].slot_info_]
                                      ELSE @]
    /\ hist' = [hist EXCEPT ![p].handshake = hist[q].handshake]
    /\ ops < MaxOps
    /\ ops' = ops + 1
    /\ UNCHANGED <<now, crashed, pc, frame, rpc, result, simplify>>

\* operator=(PluginProxy&& other)
MoveAssign(p, q) ==
    /\ ~crashed
    /\ proxy[p].life = "alive"
    /\ proxy[q].life = "alive"
    /\ ~Busy(p)
    /\ ~Busy(q)
    /\ IF p # q
       THEN \E src \in MovedFrom(proxy[q]) :
               proxy' = [proxy EXCEPT ![p] = [@ EXCEPT !.valid_ = proxy[q].valid_,
                                                       !.stub_ = proxy[q].stub_,
                                                       !.plugin_info_ = proxy[q].plugin_info_,
                                                       !.slot_info_ = proxy[q].slot_info_],
                                      ![q] = src]
       ELSE proxy' = proxy
    /\ hist' = [hist EXCEPT ![p].handshake = hist[q].handshake]
    /\ ops < MaxOps
    /\ ops' = ops + 1
    /\ UNCHANGED <<now, crashed, pc, frame, rpc, result, simplify>>

\* ~PluginProxy() = default
Destroy(p) ==
    /\ ~crashed
    /\ proxy[p].life = "alive"
    /\ ~Busy(p)
    /\ proxy' = [proxy EXCEPT ![p] = NoObject]
    /\ hist' = [hist EXCEPT ![p] = NoHist]
    /\ ops < MaxOps
    /\ ops' = ops + 1
    /\ UNCHANGED <<now, crashed, pc, frame, rpc, result, simplify>>

Next ==
    \/ Tick
    \/ \E t \in Threads, p \in ProxyIds, c \in Channels : Construct(t, p, c)
    \/ \E t \in Threads : HandshakeAnswered(t)
    \/ \E t \in Threads : HandshakeDeadline(t)
    \/ \E t \in Threads, p \in ProxyIds, x \in Args : Call(t, p, x)
    \/ \E t \in Threads, p \in ProxyIds, x \in Args : CallNoStub(t, p, x)
    \/ \E t \in Threads : CallAnswered(t)
    \/ \E t \in Threads : CallDeadline(t)
    \/ \E p \in ProxyIds : DefaultConstruct(p)
    \/ \E p, q \in ProxyIds : CopyConstruct(p, q)
    \/ \E p, q \in ProxyIds : MoveConstruct(p, q)
    \/ \E p, q \in ProxyIds : CopyAssign(p, q)
    \/ \E p, q \in ProxyIds : MoveAssign(p, q)
    \/ \E p \in ProxyIds : Destroy(p)

Spec == Init /\ [][Next]_vars

\* The clock advances and the transport enforces the deadline of every RPC.
LiveSpec ==
    /\ Spec
    /\ WF_vars(Tick)
    /\ \A t \in Threads : WF_vars(HandshakeDeadline(t)) /\ WF_vars(CallDeadline(t))

\* ------------------------------------------------------ Simplify::simplify
\* Vertices are indexed from 1 here (from 0 in the source). A vertex is its
\* coordinate on a line; the simplifier's maximum deviation is a small integer.
Coords == {0, 1, 2}
Deviations == {0, 1}
Chains == UNION {[1..n -> Coords] : n \in 0..MaxLen}

\* The importance given to a vertex that must be retained.
MaxImportance == 100

\* A min_size that is the polygon's for polylines too.
min_size_Polygon(is_closed) == 3

\* const size_t min_size = is_closed ? 3 : 2;
min_size(is_closed) == IF is_closed THEN 3 ELSE 2

\* The index of the previous / next vertex that is not about to get deleted,
\* looping around.
previousNotDeleted(index, to_delete) ==
    LET n == Len(to_delete)
        Back(d) == ((index - 1 - d + n) % n) + 1
        d == CHOOSE d \in 1..n :
                /\ ~to_delete[Back(d)]
                /\ \A e \in 1..(d - 1) : to_delete[Back(e)]
    IN Back(d)

nextNotDeleted(index, to_delete) ==
    LET n == Len(to_delete)
        Forth(d) == ((index - 1 + d) % n) + 1
        d == CHOOSE d \in 1..n :
                /\ ~to_delete[Forth(d)]
                /\ \A e \in 1..(d - 1) : to_delete[Forth(e)]
    IN Forth(d)

\* A measure of the importance of a vertex: how far it lies from the line
\* through its neighbours that are not deleted; the endpoints of a polyline
\* must be retained.
importance(polygon, to_delete, index, is_closed) ==
    IF ~is_closed /\ index \in {1, Len(polygon)}
    THEN MaxImportance
    ELSE LET before == polygon[previousNotDeleted(index, to_delete)]
             after == polygon[nextNotDeleted(index, to_delete)]
             d == before + after - (2 * polygon[index])
         IN d * d

\* remove: marks the vertex for deletion, or instead deletes an edge by fusing
\* the vertex with a neighbour (which is shifted), or leaves everything as it
\* is. The outcomes are <<polygon, to_delete>> pairs.
remove(polygon, to_delete, vertex, deviation2, is_closed) ==
    LET marked == [to_delete EXCEPT ![vertex] = TRUE]
        fixed == IF is_closed THEN {} ELSE {1, Len(polygon)}
        neighbours == {previousNotDeleted(vertex, to_delete),
                       nextNotDeleted(vertex, to_delete)} \ (fixed \cup {vertex})
    IN {<<polygon, to_delete>>, <<polygon, marked>>}
       \cup {<<[polygon EXCEPT ![nb] = polygon[vertex]], marked>> : nb \in neighbours}

\* by_importance.top(): the comparator puts the lowest importance on top, and
\* among equal importances the lowest index.
Top(by_importance) ==
    CHOOSE v \in by_importance :
        \A w \in by_importance \ {v} : v[2] < w[2] \/ (v[2] = w[2] /\ v[1] < w[1])

\* The sweep that keeps the vertices not marked for deletion, from index i on.
RECURSIVE Filtered(_, _, _)
Filtered(polygon, to_delete, i) ==
    IF i > Len(polygon) THEN <<>>
    ELSE (IF to_delete[i] THEN <<>> ELSE <<polygon[i]>>) \o Filtered(polygon, to_delete, i + 1)

\* A test that takes every popped vertex as changed.
Changed_Always(vertex_importance, queued) == TRUE

\* if(vertex_importance != vertex.second)
Changed(vertex_importance, queued) == vertex_importance # queued

\* A test that lets every vertex be removed.
Removable_Always(vertex_importance, max_deviation) == TRUE

\* if(vertex_importance <= max_deviation * max_deviation)
Removable(vertex_importance, max_deviation) ==
    vertex_importance <= max_deviation * max_deviation

\* simplify(polygon, is_closed) is entered with a chain and a simplifier.
SimplifyInit ==
    /\ now = 0
    /\ crashed = FALSE
    /\ proxy = [p \in ProxyIds |-> NoObject]
    /\ pc = [t \in Threads |-> "idle"]
    /\ frame = [t \in Threads |-> NoFrame]
    /\ rpc = [t \in Threads |-> None]
    /\ result = [t \in Threads |-> NoResult]
    /\ hist = [p \in ProxyIds |-> NoHist]
    /\ ops = 0
    /\ \E polygon \in Chains, is_closed \in BOOLEAN, max_deviation \in Deviations :
          simplify = [NoSimplify EXCEPT !.pc = "entry", !.polygon = polygon,
                                        !.is_closed = is_closed,
                                        !.max_deviation = max_deviation]

\* The early returns, and the set-up of to_delete, by_importance and result.
SimplifyEnter ==
    /\ simplify.pc = "entry"
    /\ LET polygon == simplify.polygon
           is_closed == simplify.is_closed
           to_delete == [i \in 1..Len(polygon) |-> FALSE]
       IN simplify' =
             IF Len(polygon) < min_size(is_closed)
             THEN [simplify EXCEPT !.pc = "done", !.ret = <<>>]
             ELSE IF Len(polygon) = min_size(is_closed)
             THEN [simplify EXCEPT !.pc = "done", !.ret = polygon]
             ELSE [simplify EXCEPT
                      !.pc = "loop",
                      !.to_delete = to_delete,
                      !.by_importance =
                          {<<i, importance(polygon, to_delete, i, is_closed)>> :
                              i \in 1..Len(polygon)},
                      !.result = polygon]
    /\ UNCHANGED <<now, crashed, proxy, pc, frame, rpc, result, hist, ops>>

\* One iteration of while(by_importance.size() > min_size).
SimplifyLoop ==
    /\ simplify.pc = "loop"
    /\ Cardinality(simplify.by_importance) > min_size(simplify.is_closed)
    /\ LET vertex == Top(simplify.by_importance)
           popped == simplify.by_importance \ {vertex}
           vertex_importance == importance(simplify.result, simplify.to_delete,
                                           vertex[1], simplify.is_closed)
       IN IF Changed(vertex_importance, vertex[2])
          THEN simplify' = [simplify EXCEPT
                               !.by_importance = popped \cup {<<vertex[1], vertex_importance>>},
                               !.reinserted = @ + 1,
                               !.iterations = @ + 1]
          ELSE IF Removable(vertex_importance, simplify.max_deviation)
          THEN \E outcome \in remove(simplify.result, simplify.to_delete, vertex[1],
                                     vertex_importance, simplify.is_closed) :
                  simplify' = [simplify EXCEPT
                                  !.by_importance = popped,
                                  !.result = outcome[1],
                                  !.to_delete = outcome[2],
                                  !.handed = @ \cup {[vertex |-> vertex[1],
                                                      queued |-> vertex[2],
                                                      importance |-> vertex_importance]},
                                  !.reinserted = 0,
                                  !.iterations = @ + 1]
          ELSE simplify' = [simplify EXCEPT !.by_importance = popped,
                                            !.reinserted = 0,
                                            !.iterations = @ + 1]
    /\ UNCHANGED <<now, crashed, proxy, pc, frame, rpc, result, hist, ops>>

\* The loop is left; the marked vertices are removed in one sweep.
SimplifyReturn ==
    /\ simplify.pc = "loop"
    /\ Cardinality(simplify.by_importance) <= min_size(simplify.is_closed)
    /\ simplify' = [simplify EXCEPT
                       !.pc = "done",
                       !.ret = Filtered(simplify.result, simplify.to_delete, 1)]
    /\ UNCHANGED <<now, crashed, proxy, pc, frame, rpc, result, hist, ops>>

SimplifyNext ==
    \/ SimplifyEnter
    \/ SimplifyLoop
    \/ SimplifyReturn

SimplifySpec == SimplifyInit /\ [][SimplifyNext]_vars

\* The thread that runs simplify keeps running.
SimplifyLiveSpec ==
    /\ SimplifySpec
    /\ WF_vars(SimplifyEnter)
    /\ WF_vars(SimplifyLoop)
    /\ WF_vars(SimplifyReturn)

\* ---------------------------------------------------------------- claims
\* Thread t has returned from the channel constructor / from operator().
Constructed(t) == pc[t] = "idle" /\ frame[t].op = "handshake"
Called(t) == pc[t] = "idle" /\ frame[t].op = "call"

\* The plugin info the handshake of thread t decoded.
Decoded(t) == handshake_response(Value(frame[t].response), frame[t].peer)

\* C1: constructing from a channel yields a (live, valid) proxy exactly when the
\* handshake status is OK and the validator accepts the slot and the decoded
\* plugin info; otherwise an exception is raised and no object remains.
C1_ConstructionAllOrNothing ==
    [][\A t \in Threads :
        (pc[t] = "hs_await" /\ pc'[t] = "idle") =>
            LET p == frame[t].this
                accepted == /\ ok(frame'[t].status)
                            /\ validator_type(proxy[p].slot_info_,
                                   handshake_response(Value(frame'[t].response), frame'[t].peer))
            IN /\ accepted <=> (result'[t].kind = "Proxy")
               /\ accepted => /\ proxy'[p].life = "alive"
                              /\ proxy'[p].valid_
                              /\ proxy'[p].stub_ = frame[t].channel
               /\ ~accepted => /\ result'[t].kind \in {"RemoteException", "ValidatorException"}
                               /\ proxy'[p].life = "absent"]_vars

C1_Witness ==
    \E t, u \in Threads :
        /\ Constructed(t) /\ result[t].kind = "Proxy"
        /\ Constructed(u) /\ result[u].kind = "ValidatorException"

\* C2: an OK handshake whose decoded plugin info the validator rejects raises
\* ValidatorException with the slot info and that plugin info; no
\* ValidatorException is ever raised without plugin info.
C2_ValidationErrorCarriesBoth ==
    \A t \in Threads :
        Constructed(t) =>
            /\ (ok(frame[t].status) /\ ~validator_type(SlotInfo, Decoded(t))) =>
                   /\ result[t].kind = "ValidatorException"
                   /\ result[t].slot = Some(SlotInfo)
                   /\ result[t].plugin = Some(Decoded(t))
            /\ result[t].kind = "ValidatorException" =>
                   HasValue(result[t].slot) /\ HasValue(result[t].plugin)

C2_Witness ==
    \E t \in Threads :
        Constructed(t) /\ ok(frame[t].status) /\ result[t].kind = "ValidatorException"

C4_NoPayloadNoDescriptor ==
    \A t \in Threads :
        (Constructed(t) /\ ~ok(frame[t].status)
            /\ Value(frame[t].response) = EmptyHandshakeResponse) =>
            /\ result[t].kind = "RemoteException"
            /\ result[t].plugin = None

\* C5: every data RPC in flight was issued through an object whose handshake
\* (its own, or the one of the object it was copied from) was accepted.
C5_CallsOnlyAfterAcceptedHandshake ==
    \A t \in Threads :
        pc[t] = "call_await" => HandshakeState(frame[t].this) = "Accepted"

\* C6: an object that comes out of the channel constructor has performed one
\* handshake RPC and one validator evaluation, and no later step on a live
\* object (a call in particular) adds a handshake RPC or a validator evaluation.
C6_HandshakeOnce ==
    [][\A p \in ProxyIds :
        /\ (proxy[p].life = "constructing" /\ proxy'[p].life = "alive") =>
               hist'[p].hs_rpcs = 1 /\ hist'[p].validations = 1
        /\ (proxy[p].life = "alive" /\ proxy'[p].life = "alive") =>
               /\ hist'[p].hs_rpcs = hist[p].hs_rpcs
               /\ hist'[p].validations = hist[p].validations]_vars

C6_Witness ==
    \E p \in ProxyIds :
        /\ proxy[p].life = "alive" /\ hist[p].hs_rpcs = 1 /\ hist[p].validations = 1
        /\ \A t \in Threads : Called(t)

\* C7: a call whose RPC completes OK returns the decoded reply of the plugin to
\* the encoded arguments, so equal arguments give equal values whatever
\* happened before.
C7_OkReturnsDecodedReply ==
    /\ \A t \in Threads :
          (Called(t) /\ ok(frame[t].status)) =>
              /\ Value(frame[t].response) = PluginReply(req_(frame[t].args))
              /\ result[t].kind = "Value"
              /\ result[t].value = Some(rsp_(Value(frame[t].response)))
    /\ \A t, u \in Threads :
          (Called(t) /\ Called(u) /\ ok(frame[t].status) /\ ok(frame[u].status)
              /\ frame[t].args = frame[u].args) => result[t].value = result[u].value

C7_Witness ==
    \E t \in Threads :
        /\ Called(t) /\ ok(frame[t].status) /\ frame[t].args = 2
        /\ result[t].value = Some(4)

\* C8: a call whose RPC completes with a non-OK status raises RemoteException
\* with the slot info, the status message and the plugin info the object
\* holds (if any), and hands no value to the caller.
C8_FailedCallRaises ==
    [][\A t \in Threads :
        (pc[t] = "call_await" /\ pc'[t] = "idle" /\ ~ok(frame'[t].status)) =>
            LET px == proxy[frame[t].this]
            IN /\ result'[t].kind = "RemoteException"
               /\ result'[t].slot = Some(px.slot_info_)
               /\ result'[t].msg = ErrorMessage(frame'[t].status)
               /\ result'[t].plugin = px.plugin_info_
               /\ result'[t].value = None]_vars

C8_Witness ==
    \E t \in Threads :
        /\ Called(t) /\ frame[t].status = "UNAVAILABLE"
        /\ result[t].kind = "RemoteException" /\ HasValue(result[t].plugin)
        /\ result[t].value = None

\* C9: an RPC in flight (handshake or call) does not block for ever: the
\* operation returns, and when it returns because the deadline elapsed it
\* raises RemoteException (unless the process died meanwhile).
C9_DeadlineTerminates ==
    \A t \in Threads :
        (pc[t] \in {"hs_await", "call_await"}) ~>
            \/ crashed
            \/ /\ pc[t] = "idle"
               /\ frame[t].status = "DEADLINE_EXCEEDED" => result[t].kind = "RemoteException"

C9_Witness ==
    \E t \in Threads :
        /\ pc[t] = "idle" /\ frame[t].status = "DEADLINE_EXCEEDED"
        /\ result[t].kind = "RemoteException"

\* C10 (as amended): the deadline of every handshake and of every call is the
\* time the context was created plus the 500 ms default.
C10_DeadlineIsDefault ==
    \A t \in Threads :
        HasValue(frame[t].client_context) =>
            Value(frame[t].client_context).deadline = frame[t].created + DefaultTimeout

\* C10 (as stated): ... and the caller of a call can override the timeout, so
\* the deadline of a call is the creation time plus the timeout its caller asked for.
C10_DeadlineIsRequested ==
    \A t \in Threads :
        HasValue(frame[t].client_context) =>
            Value(frame[t].client_context).deadline =
                frame[t].created + (IF frame[t].op = "call" THEN RequestedTimeout(t)
                                                            ELSE DefaultTimeout)

C10_Witness ==
    \E t \in Threads :
        /\ pc[t] = "call_await" /\ frame[t].created > 0
        /\ Value(frame[t].client_context).deadline = frame[t].created + DefaultTimeout

\* C11: every invocation of operator() that reaches its RPC issues exactly one
\* data RPC, in flight or completed, whether it returned a value or raised.
C11_OneRpcPerCall ==
    \A t \in Threads :
        frame[t].op = "call" =>
            /\ frame[t].rpcs_sent = 1
            /\ pc[t] = "call_await" <=> HasValue(rpc[t])
            /\ HasValue(rpc[t]) => Value(rpc[t]).service = "data"

C11_Witness ==
    \E t, u \in Threads :
        /\ Called(t) /\ result[t].kind = "RemoteException" /\ frame[t].rpcs_sent = 1
        /\ Called(u) /\ result[u].kind = "Value" /\ frame[u].rpcs_sent = 1

\* C12: every construction from a channel sends exactly one handshake request
\* and consumes at most one response, whether it is accepted or raises.
C12_OneHandshakeRoundTrip ==
    /\ \A t \in Threads :
          frame[t].op = "handshake" =>
              /\ frame[t].rpcs_sent = 1
              /\ pc[t] = "hs_await" <=> HasValue(rpc[t])
              /\ pc[t] = "hs_await" <=> ~HasValue(frame[t].response)
    /\ \A p \in ProxyIds :
          /\ hist[p].hs_rpcs <= 1
          /\ proxy[p].life = "constructing" => hist[p].hs_rpcs = 1

C12_Witness ==
    \E t, u \in Threads :
        /\ Constructed(t) /\ result[t].kind = "RemoteException" /\ frame[t].rpcs_sent = 1
        /\ Constructed(u) /\ result[u].kind = "ValidatorException" /\ frame[u].rpcs_sent = 1

\* C13: neither sending the request of a call nor completing the call (with a
\* value or with RemoteException) changes valid_, plugin_info_, slot_info_ or
\* stub_ of the object.
C13_CallLeavesProxyUnchanged ==
    [][\A t \in Threads :
        /\ (pc[t] = "idle" /\ pc'[t] = "call_await") => proxy' = proxy
        /\ (pc[t] = "call_await" /\ pc'[t] = "idle") =>
               LET p == frame[t].this
               IN /\ proxy'[p].valid_ = proxy[p].valid_
                  /\ proxy'[p].plugin_info_ = proxy[p].plugin_info_
                  /\ proxy'[p].slot_info_ = proxy[p].slot_info_
                  /\ proxy'[p].stub_ = proxy[p].stub_
                  /\ proxy' = proxy]_vars

C13_Witness ==
    \E t, u \in Threads, p \in ProxyIds :
        /\ Called(t) /\ result[t].kind = "RemoteException"
        /\ Called(u) /\ result[u].kind = "Value"
        /\ proxy[p].life = "alive" /\ proxy[p].valid_ /\ HasValue(proxy[p].plugin_info_)

\* C14 as stated: once plugin_info_ of a live object holds a value, no step
\* changes it while the object lives.
C14_PluginInfoNeverChanges ==
    [][\A p \in ProxyIds :
        (/\ proxy[p].life = "alive" /\ proxy'[p].life = "alive"
         /\ HasValue(proxy[p].plugin_info_))
        => proxy'[p].plugin_info_ = proxy[p].plugin_info_]_vars

\* C14 amended: plugin_info_ of a live object that holds a value changes only
\* when the object is the target of an assignment (it then equals the source's
\* plugin_info_) or when the object is moved from (its strings are then kept or
\* emptied); calls and being copied never change it.
C14_PluginInfoChangesOnlyByAssignOrMove ==
    [][\A p \in ProxyIds :
        (/\ proxy[p].life = "alive" /\ proxy'[p].life = "alive"
         /\ HasValue(proxy[p].plugin_info_))
        => \/ proxy'[p].plugin_info_ = proxy[p].plugin_info_
           \/ \E q \in ProxyIds \ {p} :
                 /\ CopyAssign(p, q) \/ MoveAssign(p, q)
                 /\ proxy'[p].plugin_info_ = proxy[q].plugin_info_
           \/ \E q \in ProxyIds \ {p} :
                 /\ MoveConstruct(q, p) \/ MoveAssign(q, p)
                 /\ proxy'[p] \in MovedFrom(proxy[p])]_vars

C14_Witness ==
    \E p, q \in ProxyIds, t \in Threads :
        /\ p # q
        /\ proxy[p].life = "alive" /\ proxy[q].life = "alive"
        /\ hist[p].hs_rpcs = 1 /\ hist[q].hs_rpcs = 0
        /\ HasValue(proxy[p].plugin_info_)
        /\ Value(proxy[p].plugin_info_).plugin_name = PluginAt(proxy[p].stub_).plugin_name
        /\ proxy[q].plugin_info_ = proxy[p].plugin_info_
        /\ Called(t)

\* C15: copy construction, move construction, copy assignment and move
\* assignment send no RPC, run no validator and start no handshake; the
\* resulting object has the valid_, plugin_info_, slot_info_ and stub_ its
\* source had; a copy leaves its source unchanged, stub_ included.
C15_CopyMoveAssignPreserve ==
    [][\A p, q \in ProxyIds :
        LET same == /\ proxy'[p].valid_ = proxy[q].valid_
                    /\ proxy'[p].plugin_info_ = proxy[q].plugin_info_
                    /\ proxy'[p].slot_info_ = proxy[q].slot_info_
                    /\ proxy'[p].stub_ = proxy[q].stub_
                    /\ proxy'[p].life = "alive"
            quiet == /\ rpc' = rpc /\ pc' = pc /\ frame' = frame /\ result' = result
                     /\ \A r \in ProxyIds :
                           /\ hist'[r].hs_rpcs <= hist[r].hs_rpcs
                           /\ hist'[r].validations <= hist[r].validations
                     /\ hist'[p].hs_rpcs \in {0, hist[p].hs_rpcs}
        IN /\ (CopyConstruct(p, q) \/ CopyAssign(p, q))
                => same /\ quiet /\ (p # q => proxy'[q] = proxy[q])
           /\ (MoveConstruct(p, q) \/ MoveAssign(p, q))
                => same /\ quiet]_vars

C15_Witness ==
    \E p, q \in ProxyIds :
        /\ p # q
        /\ proxy[p].life = "alive" /\ proxy[q].life = "alive"
        /\ hist[p].hs_rpcs = 1 /\ hist[p].validations = 1
        /\ hist[q].hs_rpcs = 0 /\ hist[q].validations = 0
        /\ proxy[p].valid_ /\ proxy[q].valid_
        /\ proxy[q].stub_ = proxy[p].stub_ /\ proxy[p].stub_ \in Channels
        /\ proxy[q].plugin_info_ = proxy[p].plugin_info_
        /\ proxy[q].slot_info_ = proxy[p].slot_info_

\* C16: when two threads have a call in flight on the same object and one of
\* them completes, it returns the decoding of the reply to its own request or
\* raises for its own status; the other thread's context, request, status and
\* result are untouched, the two contexts are distinct, and the object is only
\* read.
C16_ConcurrentCallsIndependent ==
    [][\A t, u \in Threads :
        (/\ t # u
         /\ pc[t] = "call_await" /\ pc[u] = "call_await"
         /\ frame[t].this = frame[u].this
         /\ pc'[t] = "idle")
        => /\ ok(frame'[t].status) =>
                 /\ Value(frame'[t].response) = PluginReply(req_(frame[t].args))
                 /\ result'[t].kind = "Value"
                 /\ result'[t].value = Some(rsp_(Value(frame'[t].response)))
           /\ ~ok(frame'[t].status) =>
                 /\ result'[t].kind = "RemoteException"
                 /\ result'[t].msg = ErrorMessage(frame'[t].status)
           /\ frame[t].client_context # frame[u].client_context
           /\ pc'[u] = "call_await"
           /\ frame'[u] = frame[u] /\ rpc'[u] = rpc[u] /\ result'[u] = result[u]
           /\ proxy' = proxy]_vars

C16_Witness ==
    \E t, u \in Threads :
        /\ t # u
        /\ pc[t] = "call_await" /\ pc[u] = "call_await"
        /\ frame[t].this = frame[u].this
        /\ frame[t].args # frame[u].args
        /\ proxy[frame[t].this].valid_

\* C17: a thread holds a client context exactly while its RPC (handshake or
\* data) is in flight; the context is created when the RPC is sent, with no
\* earlier context left over, and is gone when the RPC completed; the RPC
\* carries the context's deadline and exactly two metadata entries, the engine
\* uuid of the object's slot info and the id of the calling thread.
C17_FreshContextPerRpc ==
    /\ [](\A t \in Threads :
            /\ pc[t] = "idle" => frame[t].client_context = None /\ rpc[t] = None
            /\ pc[t] # "idle" =>
                  /\ HasValue(frame[t].client_context) /\ HasValue(rpc[t])
                  /\ LET ctx == Value(frame[t].client_context)
                         r == Value(rpc[t])
                     IN /\ ctx.deadline = frame[t].created + DefaultTimeout
                        /\ r.deadline = ctx.deadline
                        /\ r.metadata = ctx.metadata
                        /\ Len(ctx.metadata) = 2
                        /\ ctx.metadata[1] =
                              [key |-> "cura-engine-uuid",
                               value |-> proxy[frame[t].this].slot_info_.engine_uuid]
                        /\ ctx.metadata[2] = [key |-> "cura-thread-id", value |-> t])
    /\ [][\A t \in Threads :
            (pc[t] = "idle" /\ pc'[t] # "idle") =>
                /\ frame[t].client_context = None
                /\ HasValue(frame'[t].client_context)
                /\ frame'[t].created = now]_vars

C17_Witness ==
    \E t, u \in Threads :
        /\ pc[t] = "hs_await" /\ HasValue(frame[t].client_context)
        /\ Value(rpc[t]).metadata[2].value = t
        /\ pc[u] = "call_await" /\ HasValue(frame[u].client_context)
        /\ Value(rpc[u]).metadata[2].value = u
        /\ Value(frame[u].client_context).deadline > Value(frame[t].client_context).deadline

\* C18: when a construction is accepted, plugin_info_ of the new object holds
\* the plugin name and plugin version of the handshake response and the peer
\* the client context of the handshake RPC reports for the channel, and nothing
\* else.
C18_PluginInfoFromResponseAndPeer ==
    [][\A t \in Threads :
        (pc[t] = "hs_await" /\ pc'[t] = "idle" /\ result'[t].kind = "Proxy") =>
            LET p == frame[t].this
                response == Value(frame'[t].response)
            IN /\ proxy'[p].life = "alive"
               /\ HasValue(proxy'[p].plugin_info_)
               /\ DOMAIN Value(proxy'[p].plugin_info_) = {"plugin_name", "plugin_version", "peer"}
               /\ Value(proxy'[p].plugin_info_).plugin_name = response.plugin_name
               /\ Value(proxy'[p].plugin_info_).plugin_version = response.plugin_version
               /\ Value(proxy'[p].plugin_info_).peer = PeerOf(frame[t].channel)]_vars

C18_Witness ==
    \E t \in Threads, p \in ProxyIds :
        /\ Constructed(t) /\ result[t].kind = "Proxy"
        /\ proxy[p].life = "alive" /\ hist[p].hs_rpcs = 1
        /\ proxy[p].plugin_info_ =
              Some([plugin_name |-> Value(frame[t].response).plugin_name,
                    plugin_version |-> Value(frame[t].response).plugin_version,
                    peer |-> PeerOf(proxy[p].stub_)])
        /\ Value(frame[t].response).plugin_name # ""

\* C19: the handshake of a construction goes Unstarted, AwaitingResponse and
\* then Accepted or Rejected and nowhere else; nothing follows Accepted or
\* Rejected; Accepted is entered only from AwaitingResponse, with an OK status
\* and a positive validator verdict on the decoded response; and every
\* construction that is under way eventually reaches Accepted or Rejected
\* (unless the process dies first).
C19_HandshakeStateMachine ==
    /\ [](\A p \in ProxyIds :
            /\ hist[p].handshake \in
                  {<<>>, <<"Unstarted", "AwaitingResponse">>,
                   <<"Unstarted", "AwaitingResponse", "Accepted">>,
                   <<"Unstarted", "AwaitingResponse", "Rejected">>}
            /\ proxy[p].life = "constructing" <=> HandshakeState(p) = "AwaitingResponse")
    /\ [][\A t \in Threads :
            (pc[t] = "hs_await" /\ pc'[t] = "idle") =>
                LET p == frame[t].this
                IN /\ HandshakeState(p) = "AwaitingResponse"
                   /\ hist'[p].handshake \in {Append(hist[p].handshake, "Accepted"),
                                              Append(hist[p].handshake, "Rejected")}
                   /\ hist'[p].handshake[3] = "Accepted" =>
                         /\ ok(frame'[t].status)
                         /\ validator_type(proxy[p].slot_info_,
                                           handshake_response(Value(frame'[t].response),
                                                              frame'[t].peer))]_vars
    /\ \A p \in ProxyIds :
          (proxy[p].life = "constructing") ~>
              (HandshakeState(p) \in {"Accepted", "Rejected"} \/ crashed)

C19_Witness ==
    \E p, q \in ProxyIds :
        /\ hist[p].handshake = <<"Unstarted", "AwaitingResponse", "Accepted">>
        /\ hist[p].hs_rpcs = 1 /\ proxy[p].life = "alive"
        /\ hist[q].handshake = <<"Unstarted", "AwaitingResponse", "Rejected">>
        /\ hist[q].hs_rpcs = 1 /\ proxy[q].life = "absent"

\* C20: in a construction whose handshake status is not OK, the response was
\* not decoded and the validator was not evaluated; both happen only when the
\* status is OK.
C20_DecodeAndValidateOnlyOnOk ==
    \A t \in Threads :
        Constructed(t) =>
            /\ frame[t].decoded => ok(frame[t].status)
            /\ frame[t].validated => ok(frame[t].status)

\* C21: a construction whose handshake status is not OK raises RemoteException,
\* also when the validator's verdict on the decoded response is negative;
\* ValidatorException is raised only when the status is OK.
C21_RemoteBeforeValidation ==
    \A t \in Threads :
        Constructed(t) =>
            /\ ~ok(frame[t].status) => result[t].kind = "RemoteException"
            /\ result[t].kind = "ValidatorException" => ok(frame[t].status)
            /\ result[t].kind \in {"Proxy", "RemoteException", "ValidatorException"}

C21_Witness ==
    \E t \in Threads :
        /\ Constructed(t) /\ ~ok(frame[t].status)
        /\ ~validator_type(SlotInfo, Decoded(t))
        /\ Value(frame[t].response) # EmptyHandshakeResponse
        /\ result[t].kind = "RemoteException"

C23_DegenerateAndMinimalInput ==
    simplify.pc = "done" =>
        LET n == Len(simplify.polygon)
        IN /\ (simplify.is_closed /\ n < 3) => simplify.ret = <<>>
           /\ (~simplify.is_closed /\ n < 2) => simplify.ret = <<>>
           /\ (simplify.is_closed /\ n = 3) => simplify.ret = simplify.polygon
           /\ (~simplify.is_closed /\ n = 2) => simplify.ret = simplify.polygon

C23_Witness ==
    /\ simplify.pc = "done"
    /\ ~simplify.is_closed
    /\ Len(simplify.polygon) = 2
    /\ simplify.polygon[1] # simplify.polygon[2]
    /\ simplify.ret = simplify.polygon

\* C24: every vertex the main loop handed to remove() had, when it was popped,
\* a recomputed importance equal to its queued importance and at most
\* max_deviation squared; and a vertex that becomes marked for deletion had an
\* importance of at most max_deviation squared in the state before.
C24_RemoveOnlyWithinDeviation ==
    /\ [](\A h \in simplify.handed :
            /\ h.importance = h.queued
            /\ h.importance <= simplify.max_deviation * simplify.max_deviation)
    /\ [][(simplify.pc = "loop" /\ simplify'.pc = "loop") =>
            \A i \in 1..Len(simplify.to_delete) :
                (~simplify.to_delete[i] /\ simplify'.to_delete[i]) =>
                    /\ importance(simplify.result, simplify.to_delete, i, simplify.is_closed)
                          <= simplify.max_deviation * simplify.max_deviation
                    /\ \E h \in simplify'.handed \ simplify.handed : h.vertex = i]_vars

C24_Witness ==
    /\ simplify.pc = "done"
    /\ \E h \in simplify.handed : h.importance > 0 /\ simplify.to_delete[h.vertex]
    /\ \E i \in 1..Len(simplify.to_delete) :
          /\ ~simplify.to_delete[i]
          /\ importance(simplify.result, simplify.to_delete, i, simplify.is_closed)
                > simplify.max_deviation * simplify.max_deviation
          /\ importance(simplify.result, simplify.to_delete, i, simplify.is_closed)
                < MaxImportance

\* C25: the main loop terminates: simplify eventually returns; an iteration
\* either takes one vertex out of the queue or re-inserts the popped vertex
\* with an importance different from the queued one, changing neither the
\* chain nor the marks; and between two iterations that shrink the queue there
\* are at most as many re-insertions as the queue has entries.
C25_MainLoopTerminates ==
    /\ <>(simplify.pc = "done")
    /\ [](simplify.reinserted <= Cardinality(simplify.by_importance))
    /\ [][(simplify.pc = "loop" /\ simplify'.pc = "loop") =>
            LET q == simplify.by_importance
                r == simplify'.by_importance
            IN \/ Cardinality(r) = Cardinality(q) - 1 /\ r \subseteq q
               \/ /\ Cardinality(r) = Cardinality(q)
                  /\ simplify'.result = simplify.result
                  /\ simplify'.to_delete = simplify.to_delete
                  /\ \E v \in q : \E w \in r \ q :
                        /\ r = (q \ {v}) \cup {w}
                        /\ w[1] = v[1] /\ w[2] # v[2]
                        /\ w[2] = importance(simplify.result, simplify.to_delete,
                                             v[1], simplify.is_closed)]_vars

C25_Witness ==
    /\ simplify.pc = "done"
    /\ Len(simplify.polygon) > min_size(simplify.is_closed)
    /\ Cardinality(simplify.by_importance) = min_size(simplify.is_closed)
    /\ simplify.iterations > Len(simplify.polygon) - min_size(simplify.is_closed)
====
